---- MODULE Spec2Model ----
(***************************************************************************)
(* A model of act4brd/data_types/brd_graph.py: the value types, the        *)
(* FleetComposition and FleetAssignment classes and the                    *)
(* ServiceNetworkDesign orchestrator.                                      *)
(*                                                                         *)
(* Python values are records tagged by a field "kind" ("Bus", "Route",     *)
(* "None", "bool", "int", "str"), so that truth tests and == between       *)
(* values of different classes are computed the way Python computes them.  *)
(* Floating-point attributes are kept as scaled integers:                  *)
(* per_mile_emissions in units of 1/10000, avg_speed in whole units.       *)
(* A raised exception is a string naming the exception class and message;  *)
(* "none" stands for a normal return.                                      *)
(***************************************************************************)
EXTENDS Integers, Sequences, FiniteSets, TLC

VARIABLES
    routes,                  \* ServiceNetworkDesign.routes (constructor argument)
    od_flows,                \* ServiceNetworkDesign.od_flows (constructor argument)
    fleet_composition,       \* ServiceNetworkDesign.fleet_composition (constructor argument)
    street_network_graph,    \* ServiceNetworkDesign.street_network_graph (constructor argument)
    status,                  \* "args": not constructed yet, "design": constructed, "failed": constructor raised
    fleet_assignments,       \* ServiceNetworkDesign.fleet_assignments
    service_network_graphs,  \* ServiceNetworkDesign.service_network_graphs
    cur,                     \* a FleetAssignment object held by the caller
    last,                    \* the last call made and how it ended
    ret                      \* the object the last call was made with and the value it returned

vars == <<routes, od_flows, fleet_composition, street_network_graph, status,
          fleet_assignments, service_network_graphs, cur, last, ret>>

(***************************************************************************)
(* Bounds of the model.                                                    *)
(***************************************************************************)
MaxHistory == 2

(***************************************************************************)
(* Helpers on sequences.                                                   *)
(***************************************************************************)
RECURSIVE SumSeq(_)
SumSeq(s) == IF s = <<>> THEN 0 ELSE Head(s) + SumSeq(Tail(s))

Min2(a, b) == IF a <= b THEN a ELSE b

Range(s) == {s[i] : i \in DOMAIN s}

(***************************************************************************)
(* Value types.                                                            *)
(***************************************************************************)
BUS_OPERATOR_SALARY == 45028

None == [kind |-> "None"]

PyStr(t) == [kind |-> "str", v |-> t]

PyBool(b) == [kind |-> "bool", v |-> b]

PyInt(n) == [kind |-> "int", v |-> n]

\* a Bus instance: the dataclass fields plus the generated _uuid
Bus(uuid, name, capacity, per_mile_emissions, procurement_price, annual_maintenance_cost, discomfort_level, avg_speed) ==
    [kind |-> "Bus", uuid |-> uuid, name |-> name, capacity |-> capacity,
     per_mile_emissions |-> per_mile_emissions,
     procurement_price |-> procurement_price,
     annual_maintenance_cost |-> annual_maintenance_cost,
     discomfort_level |-> discomfort_level, avg_speed |-> avg_speed]

Route(name, nodes) == [kind |-> "Route", name |-> name, nodes |-> nodes]

\* Route.__post_init__: at least two nodes
RouteValid(r) == Len(r.nodes) >= 2

\* Route.__len__
RouteLen(r) == Len(r.nodes) - 1

ODFlow(origin, destination, flow) ==
    [kind |-> "ODFlow", origin |-> origin, destination |-> destination, flow |-> flow]

\* ODFlow.__post_init__
ODFlowValid(f) == f.flow >= 0 /\ f.origin # f.destination

\* FleetComposition(fleet): operators default to one Operator() per bus
FleetComposition(fleet) ==
    [fleet |-> fleet, operators |-> [i \in DOMAIN fleet |-> BUS_OPERATOR_SALARY]]

\* FleetComposition(fleet, operators): operators are the annual salaries
FleetCompositionWith(fleet, operators) == [fleet |-> fleet, operators |-> operators]

\* FleetComposition.__post_init__
FleetCompositionValid(c) == Len(c.fleet) >= 1 /\ Len(c.operators) = Len(c.fleet)

total_capacity(c) == SumSeq([i \in DOMAIN c.fleet |-> c.fleet[i].capacity])

total_capital_cost(c) == SumSeq([i \in DOMAIN c.fleet |-> c.fleet[i].procurement_price])

composition_total_operational_cost(c) ==
    SumSeq(c.operators)
    + SumSeq([i \in DOMAIN c.fleet |-> c.fleet[i].annual_maintenance_cost])

(***************************************************************************)
(* Python's truth test and == on the values the model uses.                *)
(***************************************************************************)
\* bool(x): a Bus defines neither __bool__ nor __len__, so it is true;
\* a Route is true when its __len__ is not 0
Truthy(x) ==
    CASE x.kind = "bool" -> x.v
      [] x.kind = "int" -> x.v # 0
      [] x.kind = "None" -> FALSE
      [] x.kind = "Route" -> RouteLen(x) # 0
      [] x.kind = "str" -> x.v # ""
      [] OTHER -> TRUE

\* the number a bool or int stands for
NumOf(x) == IF x.kind = "bool" THEN (IF x.v THEN 1 ELSE 0) ELSE x.v

IsNum(x) == x.kind \in {"bool", "int"}

\* x == y: numbers by value (True == 1), dataclasses field by field and only
\* within the same class, None only with None
PyEq(x, y) ==
    IF IsNum(x) /\ IsNum(y) THEN NumOf(x) = NumOf(y)
    ELSE IF IsNum(x) \/ IsNum(y) THEN FALSE
    ELSE x = y

(***************************************************************************)
(* FleetAssignment.  assigned_buses and assigned_bus_routes are kept as    *)
(* sequences in fleet order.  rep = "dict": the two maps built by          *)
(* __post_init__, keyed by the buses of the fleet in fleet order (the      *)
(* buses of a fleet are distinct instances).  rep = "list": the two lists  *)
(* a caller passed to the constructor.  rep = "none": no object.           *)
(***************************************************************************)
NoAssignment == [rep |-> "none"]

\* FleetAssignment(composition)
NewFleetAssignment(composition) ==
    [composition |-> composition, rep |-> "dict",
     assigned_buses |-> [i \in DOMAIN composition.fleet |-> FALSE],
     assigned_bus_routes |-> [i \in DOMAIN composition.fleet |-> None]]

\* FleetAssignment(composition, assigned_buses=[...], assigned_bus_routes=[...])
ListFleetAssignment(composition, flags, rts) ==
    [composition |-> composition, rep |-> "list",
     assigned_buses |-> flags, assigned_bus_routes |-> rts]

\* the position of a bus among the keys of the maps, 0 when it is no key
KeyIndex(a, bus) ==
    IF \E i \in DOMAIN a.composition.fleet : a.composition.fleet[i] = bus
    THEN CHOOSE i \in DOMAIN a.composition.fleet : a.composition.fleet[i] = bus
    ELSE 0

\* `bus in self.assigned_buses`
Contains(a, bus) ==
    IF a.rep = "dict" THEN KeyIndex(a, bus) # 0
    ELSE \E i \in DOMAIN a.assigned_buses : PyEq(PyBool(a.assigned_buses[i]), bus)

\* the position self.assigned_buses[bus] reads and writes, 0 when the
\* subscript raises (a list indexed past its end)
ItemIndex(a, bus) ==
    IF a.rep = "dict" THEN KeyIndex(a, bus)
    ELSE IF IsNum(bus) /\ NumOf(bus) < Len(a.assigned_buses) THEN NumOf(bus) + 1
    ELSE 0

\* FleetAssignment.assign_bus_to_route: the exception raised ("none" for a
\* normal return) and the object afterwards
assign_bus_to_route(a, bus, route) ==
    IF ~Contains(a, bus)
    THEN [exc |-> "ValueError: not in the fleet", a |-> a]
    ELSE IF ItemIndex(a, bus) = 0
    THEN [exc |-> "IndexError", a |-> a]
    ELSE IF a.assigned_buses[ItemIndex(a, bus)]
    THEN [exc |-> "ValueError: already assigned", a |-> a]
    ELSE [exc |-> "none",
          a |-> [a EXCEPT !.assigned_buses[ItemIndex(a, bus)] = TRUE,
                          !.assigned_bus_routes[ItemIndex(a, bus)] = route]]

\* what iterating self.assigned_buses yields: the keys of a dict, the
\* elements of a list
IterAssignedBuses(a) ==
    IF a.rep = "dict" THEN a.composition.fleet
    ELSE [i \in DOMAIN a.assigned_buses |-> PyBool(a.assigned_buses[i])]

\* what iterating self.assigned_bus_routes yields
IterAssignedBusRoutes(a) ==
    IF a.rep = "dict" THEN a.composition.fleet ELSE a.assigned_bus_routes

\* the positions zip(first, self.assigned_buses, self.assigned_bus_routes)
\* yields whose row passes `assigned and assigned_route == route`
ZipMatches(a, first, route) ==
    {i \in 1..Min2(Len(first), Min2(Len(IterAssignedBuses(a)), Len(IterAssignedBusRoutes(a)))) :
        /\ Truthy(IterAssignedBuses(a)[i])
        /\ PyEq(IterAssignedBusRoutes(a)[i], route)}

\* sum(f[i] for the matching rows i), f a sequence
SumOver(S, f) == SumSeq([i \in DOMAIN f |-> IF i \in S THEN f[i] ELSE 0])

FleetCapacity(a, i) == a.composition.fleet[i].capacity

capacity_for_route(a, route) ==
    SumOver(ZipMatches(a, a.composition.fleet, route),
            [i \in DOMAIN a.composition.fleet |-> FleetCapacity(a, i)])

capital_cost_for_route(a, route) ==
    SumOver(ZipMatches(a, a.composition.fleet, route),
            [i \in DOMAIN a.composition.fleet |-> a.composition.fleet[i].procurement_price])

operational_cost_for_route(a, route) ==
    SumOver(ZipMatches(a, a.composition.operators, route), a.composition.operators)
    + SumOver(ZipMatches(a, a.composition.fleet, route),
              [i \in DOMAIN a.composition.fleet |->
                  a.composition.fleet[i].annual_maintenance_cost])

emissions_for_route(a, route) ==
    SumOver(ZipMatches(a, a.composition.fleet, route),
            [i \in DOMAIN a.composition.fleet |-> a.composition.fleet[i].per_mile_emissions])

assignment_num_buses_assigned_to_route(a, route) ==
    Cardinality(ZipMatches(a, a.composition.fleet, route))

\* FleetAssignment.total_emissions: zip(fleet, self.assigned_buses), `if assigned`
assignment_total_emissions(a) ==
    SumOver({i \in 1..Min2(Len(a.composition.fleet), Len(IterAssignedBuses(a))) :
                Truthy(IterAssignedBuses(a)[i])},
            [i \in DOMAIN a.composition.fleet |-> a.composition.fleet[i].per_mile_emissions])

num_buses(a) == Len(a.composition.fleet)

\* sum(self.assigned_buses): 0 + first element + ...; adding a Bus to an int
\* raises TypeError.  [exc, val]
num_buses_assigned(a) ==
    IF \E i \in DOMAIN IterAssignedBuses(a) : ~IsNum(IterAssignedBuses(a)[i])
    THEN [exc |-> "TypeError", val |-> 0]
    ELSE [exc |-> "none",
          val |-> SumSeq([i \in DOMAIN IterAssignedBuses(a) |-> NumOf(IterAssignedBuses(a)[i])])]

\* all(self.assigned_buses)
buses_assigned(a) ==
    \A i \in DOMAIN IterAssignedBuses(a) : Truthy(IterAssignedBuses(a)[i])

(***************************************************************************)
(* The street network: an undirected networkx Graph.  nodes is its node    *)
(* set; edges holds one record per edge with its attribute dictionary      *)
(* (has_weight: the key "weight" is present; type: the value of "type",    *)
(* "" when the key is absent).                                             *)
(***************************************************************************)
EdgeData(has_weight, weight, type) ==
    [has_weight |-> has_weight, weight |-> weight, type |-> type]

StreetEdge(u, v, data) == [u |-> u, v |-> v, data |-> data]

\* the graph add_edge / add_edges_from calls build: the nodes are the endpoints
StreetGraph(edges) ==
    [nodes |-> {e.u : e \in edges} \cup {e.v : e \in edges}, edges |-> edges]

\* Graph.has_edge(u, v)
has_edge(G, u, v) ==
    \E e \in G.edges : (e.u = u /\ e.v = v) \/ (e.u = v /\ e.v = u)

Neighbours(G, S) ==
    S \cup {e.v : e \in {x \in G.edges : x.u \in S}}
      \cup {e.u : e \in {x \in G.edges : x.v \in S}}

RECURSIVE ReachableFrom(_, _)
ReachableFrom(G, S) ==
    IF Neighbours(G, S) = S THEN S ELSE ReachableFrom(G, Neighbours(G, S))

\* nx.has_path(G, source, target): "NodeNotFound" is raised by the shortest
\* path search when an endpoint is no node of G; has_path only catches
\* NetworkXNoPath
has_path(G, source, target) ==
    IF source \notin G.nodes \/ target \notin G.nodes THEN "NodeNotFound"
    ELSE IF target \in ReachableFrom(G, {source}) THEN "True"
    ELSE "False"

\* G[u][v]['weight']
StreetWeight(G, u, v) ==
    (CHOOSE e \in G.edges : (e.u = u /\ e.v = v) \/ (e.u = v /\ e.v = u)).data.weight

(***************************************************************************)
(* ServiceNetworkDesign.__post_init__                                      *)
(***************************************************************************)
RoutePairs(r) == [i \in 1..(Len(r.nodes) - 1) |-> <<r.nodes[i], r.nodes[i + 1]>>]

RouteNamesUnique(rs) == Cardinality({rs[i].name : i \in DOMAIN rs}) = Len(rs)

\* the first OD flow, in list order, whose has_path does not return True (0: none)
FirstBadODFlow(ods, G) ==
    IF \E i \in DOMAIN ods : has_path(G, ods[i].origin, ods[i].destination) # "True"
    THEN CHOOSE i \in DOMAIN ods :
            /\ has_path(G, ods[i].origin, ods[i].destination) # "True"
            /\ \A j \in 1..(i - 1) : has_path(G, ods[j].origin, ods[j].destination) = "True"
    ELSE 0

RoutesOnStreets(rs, G) ==
    \A i \in DOMAIN rs : \A k \in DOMAIN RoutePairs(rs[i]) :
        has_edge(G, RoutePairs(rs[i])[k][1], RoutePairs(rs[i])[k][2])

AllEdgesWeighted(G) == \A e \in G.edges : e.data.has_weight

\* the exception the constructor raises, "none" when it returns
PostInit(rs, ods, comp, G) ==
    IF Len(rs) < 1 THEN "ValueError: At least one route must be provided"
    ELSE IF Len(ods) < 1 THEN "ValueError: At least one OD flow must be provided"
    ELSE IF Len(comp.fleet) < Len(rs)
    THEN "ValueError: At least one bus must be provided for each route"
    ELSE IF ~RouteNamesUnique(rs) THEN "ValueError: All routes must have a unique name"
    ELSE IF FirstBadODFlow(ods, G) # 0
    THEN (IF has_path(G, ods[FirstBadODFlow(ods, G)].origin,
                         ods[FirstBadODFlow(ods, G)].destination) = "NodeNotFound"
          THEN "NodeNotFound"
          ELSE "ValueError: No path between OD pair")
    ELSE IF ~RoutesOnStreets(rs, G) THEN "ValueError: No edge between nodes"
    ELSE IF ~AllEdgesWeighted(G)
    THEN "ValueError: All edges in the graph must have a 'weight' attribute"
    ELSE "none"

\* demand_profile_name is a string built from the OD flows; the model keeps
\* the sequence of (origin, destination, flow) triples it joins
demand_profile_name(ods) ==
    [i \in DOMAIN ods |-> <<ods[i].origin, ods[i].destination, ods[i].flow>>]

(***************************************************************************)
(* The service network graph: a MultiDiGraph, kept as the sequence of its  *)
(* directed edges in insertion order.  A travel time is the pair           *)
(* (street weight, avg_speed) whose quotient it is.                        *)
(***************************************************************************)
RECURSIVE Flatten(_)
Flatten(ss) == IF ss = <<>> THEN <<>> ELSE Head(ss) \o Flatten(Tail(ss))

EmptyServiceGraph == [edges |-> <<>>]

\* _get_empty_service_network_graph: edges(data=True) of a Graph yields
\* (u, v, data) triples, the generator unpacks four names, so the first edge
\* drawn raises inside the MultiDiGraph constructor, which reports
\* NetworkXError; without street edges the generator is empty.  [exc, graph]
get_empty_service_network_graph(G) ==
    IF G.edges # {} THEN [exc |-> "NetworkXError", graph |-> EmptyServiceGraph]
    ELSE [exc |-> "none", graph |-> EmptyServiceGraph]

\* the edges add_edge adds for one bus running one route
BusEdges(G, route, bus) ==
    [k \in DOMAIN RoutePairs(route) |->
        [u |-> RoutePairs(route)[k][1], v |-> RoutePairs(route)[k][2],
         weight |-> <<StreetWeight(G, RoutePairs(route)[k][1], RoutePairs(route)[k][2]),
                      bus.avg_speed>>,
         type |-> "bus", route_id |-> route.name, discomfort |-> bus.discomfort_level]]

\* `assignment.assigned_buses[bus] and assignment.assigned_bus_routes[bus] == route`
BusOnRoute(a, bus, route) ==
    /\ a.assigned_buses[KeyIndex(a, bus)]
    /\ PyEq(a.assigned_bus_routes[KeyIndex(a, bus)], route)

\* the loop of _update_service_network_graphs over routes, buses and node pairs
ServiceEdges(rs, comp, a, G) ==
    Flatten([r \in DOMAIN rs |->
        Flatten([b \in DOMAIN comp.fleet |->
            IF BusOnRoute(a, comp.fleet[b], rs[r])
            THEN BusEdges(G, rs[r], comp.fleet[b])
            ELSE <<>>])])

\* a node pair of a route run by a bus that is no street edge: G[u][v] raises
MissingStreetEdge(rs, comp, a, G) ==
    \E r \in DOMAIN rs : \E b \in DOMAIN comp.fleet :
        /\ BusOnRoute(a, comp.fleet[b], rs[r])
        /\ \E k \in DOMAIN RoutePairs(rs[r]) :
              ~has_edge(G, RoutePairs(rs[r])[k][1], RoutePairs(rs[r])[k][2])

\* _update_service_network_graphs for the assignment a = fleet_assignments[-1]:
\* the exception raised and the graph history afterwards.  A list is
\* subscripted by a Bus (TypeError); a bus that is no key of the maps
\* raises KeyError
update_service_network_graphs(rs, comp, G, a, graphs) ==
    IF get_empty_service_network_graph(G).exc # "none"
    THEN [exc |-> get_empty_service_network_graph(G).exc, graphs |-> graphs]
    ELSE IF a.rep = "list"
    THEN [exc |-> "TypeError", graphs |-> graphs]
    ELSE IF \E b \in DOMAIN comp.fleet : KeyIndex(a, comp.fleet[b]) = 0
    THEN [exc |-> "KeyError", graphs |-> graphs]
    ELSE IF MissingStreetEdge(rs, comp, a, G)
    THEN [exc |-> "KeyError", graphs |-> graphs]
    ELSE [exc |-> "none",
          graphs |-> Append(graphs,
              [edges |-> get_empty_service_network_graph(G).graph.edges
                         \o ServiceEdges(rs, comp, a, G)])]

\* assign_buses with new_assignment the object the routine returned: the
\* exception raised and both histories afterwards
assign_buses(rs, comp, G, assignments, graphs, new_assignment) ==
    IF ~buses_assigned(new_assignment)
    THEN [exc |-> "ValueError: Not all buses have been assigned",
          assignments |-> assignments, graphs |-> graphs]
    ELSE [exc |-> update_service_network_graphs(rs, comp, G, new_assignment, graphs).exc,
          assignments |-> Append(assignments, new_assignment),
          graphs |-> update_service_network_graphs(rs, comp, G, new_assignment, graphs).graphs]

\* list.index(x): the first position holding an element equal to x (0: none)
IndexOf(seq, x) ==
    IF \E i \in DOMAIN seq : seq[i] = x
    THEN CHOOSE i \in DOMAIN seq : seq[i] = x /\ \A j \in 1..(i - 1) : seq[j] # x
    ELSE 0

RemoveAt(seq, i) == [j \in 1..(Len(seq) - 1) |-> IF j < i THEN seq[j] ELSE seq[j + 1]]

\* remove_assignment removing every element equal to a, not the first alone
remove_assignment_every(assignments, a) ==
    IF IndexOf(assignments, a) = 0
    THEN [exc |-> "ValueError: list.remove(x): x not in list", assignments |-> assignments]
    ELSE [exc |-> "none", assignments |-> SelectSeq(assignments, LAMBDA x : x # a)]

\* remove_assignment: list.remove raises ValueError when no element is equal
remove_assignment(assignments, a) ==
    IF IndexOf(assignments, a) = 0
    THEN [exc |-> "ValueError: list.remove(x): x not in list", assignments |-> assignments]
    ELSE [exc |-> "none", assignments |-> RemoveAt(assignments, IndexOf(assignments, a))]

\* remove_all_assignments
remove_all_assignments(assignments) == <<>>

\* satisfied_demand: a dict keyed by the OD flows, each flow of the list
\* adding the capacity of every covering route of every assignment to its key
Covers(route, od) ==
    od.origin \in Range(route.nodes) /\ od.destination \in Range(route.nodes)

satisfied_demand(rs, ods, assignments) ==
    [f \in Range(ods) |->
        SumSeq([ai \in DOMAIN assignments |->
            SumSeq([ri \in DOMAIN rs |->
                SumSeq([oi \in DOMAIN ods |->
                    IF ods[oi] = f /\ Covers(rs[ri], ods[oi])
                    THEN capacity_for_route(assignments[ai], rs[ri])
                    ELSE 0])])])]

(***************************************************************************)
(* Flow analysis.  Travel times are floats in the code; the model keeps a  *)
(* travel time (street weight, avg_speed) as the integer number of         *)
(* sixtieths it is, and a quotient the code returns as the pair            *)
(* (numerator, denominator), compared by cross-multiplication.             *)
(***************************************************************************)
Rat(n, d) == <<n, d>>

RatAdd(x, y) == <<x[1] * y[2] + y[1] * x[2], x[2] * y[2]>>

RatEq(x, y) == x[1] * y[2] = y[1] * x[2]

RECURSIVE RatSum(_)
RatSum(s) == IF s = <<>> THEN Rat(0, 1) ELSE RatAdd(Head(s), RatSum(Tail(s)))

\* edge_data["weight"] in sixtieths
TimeOf(e) == (e.weight[1] * 60) \div e.weight[2]

\* the nodes of a MultiDiGraph that was given edges only
GraphNodes(graph) ==
    {graph.edges[i].u : i \in DOMAIN graph.edges} \cup {graph.edges[i].v : i \in DOMAIN graph.edges}

\* graph[u][v]: the parallel edges from u to v, by key (insertion order)
EdgesBetween(graph, u, v) == SelectSeq(graph.edges, LAMBDA e : e.u = u /\ e.v = v)

\* graph[u][v][0]
FirstEdge(graph, u, v) == EdgesBetween(graph, u, v)[1]

\* the weight Dijkstra gives a hop of a multigraph: the least of its parallel edges
HopWeight(graph, u, v) ==
    LET es == EdgesBetween(graph, u, v)
    IN TimeOf(es[CHOOSE i \in DOMAIN es : \A j \in DOMAIN es : TimeOf(es[i]) <= TimeOf(es[j])])

\* the node sequences that extend one of paths by at most n edges of the
\* graph without repeating a node
RECURSIVE ExtendPaths(_, _, _)
ExtendPaths(graph, paths, n) ==
    IF n = 0 THEN paths
    ELSE ExtendPaths(graph,
             paths \cup UNION {{Append(p, graph.edges[i].v) :
                                   i \in {j \in DOMAIN graph.edges :
                                             /\ graph.edges[j].u = p[Len(p)]
                                             /\ graph.edges[j].v \notin Range(p)}} :
                               p \in paths},
             n - 1)

\* the node sequences from origin to destination that repeat no node and
\* follow an edge at every hop
SimplePaths(graph, origin, destination) ==
    {p \in ExtendPaths(graph, {<<origin>>}, Cardinality(GraphNodes(graph)) - 1) :
        Len(p) >= 2 /\ p[Len(p)] = destination}

PathWeight(graph, p) ==
    SumSeq([i \in 1..(Len(p) - 1) |-> HopWeight(graph, p[i], p[i + 1])])

\* nx.shortest_path(graph, origin, destination, weight="weight"): the set of
\* its possible outcomes; which of several paths of least weight is returned
\* is left open
shortest_path(graph, origin, destination) ==
    LET paths == SimplePaths(graph, origin, destination)
        least == CHOOSE w \in {PathWeight(graph, q) : q \in paths} :
                     \A r \in paths : w <= PathWeight(graph, r)
    IN IF origin \notin GraphNodes(graph) \/ destination \notin GraphNodes(graph)
       THEN {[exc |-> "NodeNotFound", path |-> <<>>]}
       ELSE IF paths = {}
       THEN {[exc |-> "NetworkXNoPath", path |-> <<>>]}
       ELSE {[exc |-> "none", path |-> p] : p \in {q \in paths : PathWeight(graph, q) = least}}

\* the locals of analyze_flow_for_assignment before the loop over the edges
WalkStart ==
    [exc |-> "none", total_time |-> 0, unique_routes |-> {}, transfers |-> 0,
     discomfort |-> 0, prev_route |-> None, segments |-> 0]

\* one pass of the loop body for the edge (u, v), on the locals w
WalkStep(graph, w, u, v) ==
    LET edge_data == FirstEdge(graph, u, v)
    IN IF w.exc # "none" THEN w
       ELSE IF edge_data.type = ""
       THEN [w EXCEPT !.exc = "KeyError: 'type'",
                      !.total_time = w.total_time + TimeOf(edge_data)]
       ELSE IF edge_data.type # "bus"
       THEN [w EXCEPT !.total_time = w.total_time + TimeOf(edge_data)]
       ELSE [w EXCEPT !.total_time = w.total_time + TimeOf(edge_data),
                      !.unique_routes = w.unique_routes \cup {edge_data.route_id},
                      !.discomfort = w.discomfort + edge_data.discomfort,
                      !.transfers = IF Truthy(w.prev_route)
                                       /\ w.prev_route # PyStr(edge_data.route_id)
                                    THEN w.transfers + 1 ELSE w.transfers,
                      !.prev_route = PyStr(edge_data.route_id),
                      !.segments = w.segments + 1]

\* the loop over the first n edges of the path
RECURSIVE Walk(_, _, _)
Walk(graph, path, n) ==
    IF n = 0 THEN WalkStart
    ELSE WalkStep(graph, Walk(graph, path, n - 1), path[n], path[n + 1])

\* the dict analyze_flow_for_assignment returns for the locals w of a path
\* of total_edges edges
FlowMetrics(w, total_edges) ==
    [average_travel_time |-> IF total_edges > 0 THEN Rat(w.total_time, total_edges)
                             ELSE Rat(0, 1),
     number_of_hops |-> total_edges,
     number_of_services |-> Cardinality(w.unique_routes),
     transfers |-> w.transfers,
     average_discomfort |-> IF w.segments > 0 THEN Rat(w.discomfort, w.segments)
                            ELSE Rat(0, 1)]

\* the flow analysis on one graph: the set of its possible outcomes
\* [exc, path, value], value the returned dict (None when it raises)
AnalyzeGraph(graph, od_flow) ==
    {IF sp.exc # "none" THEN [exc |-> sp.exc, path |-> sp.path, value |-> None]
     ELSE LET w == Walk(graph, sp.path, Len(sp.path) - 1)
          IN IF w.exc # "none" THEN [exc |-> w.exc, path |-> sp.path, value |-> None]
             ELSE [exc |-> "none", path |-> sp.path,
                   value |-> FlowMetrics(w, Len(sp.path) - 1)] :
        sp \in shortest_path(graph, od_flow.origin, od_flow.destination)}

\* analyze_flow_for_assignment: list.index raises ValueError for an
\* assignment equal to no entry, the subscript raises IndexError when the
\* graph history is shorter than the position found
analyze_flow_for_assignment(assignments, graphs, assignment, od_flow) ==
    IF IndexOf(assignments, assignment) = 0
    THEN {[exc |-> "ValueError: x is not in list", path |-> <<>>, value |-> None]}
    ELSE IF IndexOf(assignments, assignment) > Len(graphs)
    THEN {[exc |-> "IndexError: list index out of range", path |-> <<>>, value |-> None]}
    ELSE AnalyzeGraph(graphs[IndexOf(assignments, assignment)], od_flow)

Metrics == {"average_travel_time", "average_discomfort", "transfers", "number_of_hops"}

\* analysis[metric] as a quotient
MetricOf(value, metric) ==
    CASE metric = "average_travel_time" -> value.average_travel_time
      [] metric = "average_discomfort" -> value.average_discomfort
      [] metric = "transfers" -> Rat(value.transfers, 1)
      [] metric = "number_of_hops" -> Rat(value.number_of_hops, 1)

\* sum(analysis[metric] * od_flow.flow for ...) / sum(od_flow.flow for ...)
\* for one outcome per OD flow: the first analysis that raises ends the
\* numerator, a zero denominator raises ZeroDivisionError.  [exc, value]
WeightedMean(ods, outcomes, metric) ==
    IF \E i \in DOMAIN ods : outcomes[i].exc # "none"
    THEN [exc |-> outcomes[CHOOSE i \in DOMAIN ods :
                               /\ outcomes[i].exc # "none"
                               /\ \A j \in 1..(i - 1) : outcomes[j].exc = "none"].exc,
          value |-> None]
    ELSE IF SumSeq([i \in DOMAIN ods |-> ods[i].flow]) = 0
    THEN [exc |-> "ZeroDivisionError", value |-> None]
    ELSE LET numerator == RatSum([i \in DOMAIN ods |->
                                Rat(MetricOf(outcomes[i].value, metric)[1] * ods[i].flow,
                                    MetricOf(outcomes[i].value, metric)[2])])
         IN [exc |-> "none",
             value |-> Rat(numerator[1],
                           numerator[2] * SumSeq([i \in DOMAIN ods |-> ods[i].flow]))]

\* avg_travel_time_for_assignment, avg_discomfort_level_for_assignment,
\* avg_transfers_for_assignment and avg_hops_for_assignment, by the metric
\* they read: the set of their possible outcomes
avg_for_assignment(ods, assignments, graphs, assignment, metric) ==
    LET per == [i \in DOMAIN ods |->
                   analyze_flow_for_assignment(assignments, graphs, assignment, ods[i])]
    IN {WeightedMean(ods, outcomes, metric) :
           outcomes \in {c \in [DOMAIN ods -> UNION {per[i] : i \in DOMAIN ods}] :
                           \A i \in DOMAIN ods : c[i] \in per[i]}}

\* avg_travel_times, avg_discomfort_levels, avg_transfers and avg_hops: the
\* list comprehension over fleet_assignments, ended by the first entry whose
\* aggregate raises
avg_list(ods, assignments, graphs, metric) ==
    LET per == [i \in DOMAIN assignments |->
                   avg_for_assignment(ods, assignments, graphs, assignments[i], metric)]
    IN {IF \E i \in DOMAIN assignments : entries[i].exc # "none"
        THEN [exc |-> entries[CHOOSE i \in DOMAIN assignments :
                                  /\ entries[i].exc # "none"
                                  /\ \A j \in 1..(i - 1) : entries[j].exc = "none"].exc,
              value |-> None]
        ELSE [exc |-> "none", value |-> [i \in DOMAIN assignments |-> entries[i].value]] :
           entries \in {c \in [DOMAIN assignments ->
                                UNION {per[i] : i \in DOMAIN assignments}] :
                           \A i \in DOMAIN assignments : c[i] \in per[i]}}

\* ServiceNetworkDesign.total_emissions
design_total_emissions(assignments) ==
    SumSeq([i \in DOMAIN assignments |-> assignment_total_emissions(assignments[i])])

\* ServiceNetworkDesign.total_capital_cost
design_total_capital_cost(assignments) ==
    SumSeq([i \in DOMAIN assignments |-> total_capital_cost(assignments[i].composition)])

\* ServiceNetworkDesign.total_operational_cost
design_total_operational_cost(rs, assignments) ==
    SumSeq([i \in DOMAIN assignments |->
        SumSeq([r \in DOMAIN rs |-> operational_cost_for_route(assignments[i], rs[r])])])

Aggregates ==
    {"total_emissions", "total_capital_cost", "total_operational_cost", "satisfied_demand",
     "avg_travel_times", "avg_discomfort_levels", "avg_transfers", "avg_hops"}

\* the metric an avg_* list property reads
MetricOfList(name) ==
    CASE name = "avg_travel_times" -> "average_travel_time"
      [] name = "avg_discomfort_levels" -> "average_discomfort"
      [] name = "avg_transfers" -> "transfers"
      [] name = "avg_hops" -> "number_of_hops"

\* what reading an aggregate property ends with: the set of its possible
\* outcomes, each the exception raised and the value returned
aggregate_outcomes(name, rs, ods, assignments, graphs) ==
    CASE name = "total_emissions" ->
             {[exc |-> "none", value |-> design_total_emissions(assignments)]}
      [] name = "total_capital_cost" ->
             {[exc |-> "none", value |-> design_total_capital_cost(assignments)]}
      [] name = "total_operational_cost" ->
             {[exc |-> "none", value |-> design_total_operational_cost(rs, assignments)]}
      [] name = "satisfied_demand" ->
             {[exc |-> "none", value |-> satisfied_demand(rs, ods, assignments)]}
      [] OTHER -> avg_list(ods, assignments, graphs, MetricOfList(name))

\* an aggregate property that drops the assignments it has summed
evaluate_aggregate_consuming(name, rs, ods, assignments, graphs) ==
    {[exc |-> o.exc, value |-> o.value, assignments |-> <<>>, graphs |-> graphs] :
        o \in aggregate_outcomes(name, rs, ods, assignments, graphs)}

\* reading an aggregate property: its outcomes and both histories afterwards
\* (no property assigns to a field of the design)
evaluate_aggregate(name, rs, ods, assignments, graphs) ==
    {[exc |-> o.exc, value |-> o.value, assignments |-> assignments, graphs |-> graphs] :
        o \in aggregate_outcomes(name, rs, ods, assignments, graphs)}

(***************************************************************************)
(* The inputs the model draws from.  Buses are those of the test suite     *)
(* (tests/test_brd_graph.py); Bus3 has the attributes of Bus1 and its own  *)
(* identity.  Street networks are all the graphs over three candidate      *)
(* edges of the path 0 - 1 - 2 - 3, each edge absent, added with weight 1  *)
(* or added without a weight, and the path with its last edge typed        *)
(* "distance".                                                             *)
(***************************************************************************)
Bus1 == Bus(1, "Bus1", 60, 148, 300000, 25000, 1, 12)

Bus2 == Bus(2, "Bus2", 90, 220, 750000, 40000, 1, 12)

Bus3 == Bus(3, "Bus1", 60, 148, 300000, 25000, 1, 12)

Compositions ==
    {FleetComposition(<<Bus1>>), FleetComposition(<<Bus1, Bus2>>),
     FleetCompositionWith(<<Bus1, Bus2>>, <<40000, 50000>>)}

Route1 == Route("route_1", <<0, 1, 2>>)

Route2 == Route("route_2", <<1, 2, 3>>)

Route1b == Route("route_1", <<2, 3>>)

RouteLists == {<<>>, <<Route1>>, <<Route1, Route2>>, <<Route1, Route1b>>}

ODFlowLists ==
    {<<>>, <<ODFlow(0, 1, 100)>>, <<ODFlow(1, 2, 190), ODFlow(0, 3, 10)>>,
     <<ODFlow(0, 1, 100), ODFlow(0, 1, 100)>>, <<ODFlow(2, 3, 0)>>}

EdgeChoices(u, v) ==
    {{}, {StreetEdge(u, v, EdgeData(TRUE, 1, ""))}, {StreetEdge(u, v, EdgeData(FALSE, 0, ""))}}

StreetGraphs ==
    {StreetGraph(a \cup b \cup c) :
        a \in EdgeChoices(0, 1), b \in EdgeChoices(1, 2), c \in EdgeChoices(2, 3)}
    \cup {StreetGraph({StreetEdge(0, 1, EdgeData(TRUE, 1, "")),
                       StreetEdge(1, 2, EdgeData(TRUE, 1, "")),
                       StreetEdge(2, 3, EdgeData(TRUE, 1, "distance"))})}

\* the arguments assign_bus_to_route is called with: buses, and the
\* positions the test suite passes
BusArgs == {Bus1, Bus2, Bus3, PyInt(0), PyInt(1), PyInt(2)}

RouteArgs == {Route1, Route2}

(***************************************************************************)
(* Bus assignment routines: each builds a FleetAssignment for the design   *)
(* it is handed.  The first four start from FleetAssignment(composition)   *)
(* and call assign_bus_to_route; the last two pass the lists of            *)
(* mock_assign_all_buses_routine and mock_assignment_routine.              *)
(***************************************************************************)
RECURSIVE AssignFirst(_, _, _, _)
AssignFirst(a, rs, n, round_robin) ==
    IF n = 0 THEN a
    ELSE assign_bus_to_route(AssignFirst(a, rs, n - 1, round_robin),
                             a.composition.fleet[n],
                             IF round_robin THEN rs[((n - 1) % Len(rs)) + 1] ELSE rs[1]).a

Routines ==
    {"all_first", "round_robin", "first_only", "none_assigned", "list_all", "list_partial"}

RoutineResult(routine, rs, comp) ==
    CASE routine = "all_first" ->
            AssignFirst(NewFleetAssignment(comp), rs, Len(comp.fleet), FALSE)
      [] routine = "round_robin" ->
            AssignFirst(NewFleetAssignment(comp), rs, Len(comp.fleet), TRUE)
      [] routine = "first_only" -> AssignFirst(NewFleetAssignment(comp), rs, 1, FALSE)
      [] routine = "none_assigned" -> NewFleetAssignment(comp)
      [] routine = "list_all" ->
            ListFleetAssignment(comp, [i \in DOMAIN comp.fleet |-> TRUE],
                                [i \in DOMAIN comp.fleet |-> rs[1]])
      [] routine = "list_partial" ->
            ListFleetAssignment(comp, [i \in DOMAIN comp.fleet |-> i = 1],
                                [i \in DOMAIN comp.fleet |-> IF i = 1 THEN rs[1] ELSE None])

(***************************************************************************)
(* The state machine.                                                      *)
(***************************************************************************)
Call(op, exc, bus, route, routine) ==
    [op |-> op, exc |-> exc, bus |-> bus, route |-> route, routine |-> routine]

\* the assignment or OD flow a design method was called with and its return value
Ret(arg, value) == [arg |-> arg, value |-> value]

NoReturn == Ret(None, None)

Init ==
    /\ routes \in RouteLists
    /\ od_flows \in ODFlowLists
    /\ fleet_composition \in Compositions
    /\ street_network_graph \in StreetGraphs
    /\ status = "args"
    /\ fleet_assignments = <<>>
    /\ service_network_graphs = <<>>
    /\ cur = NoAssignment
    /\ last = Call("none", "none", None, None, "")
    /\ ret = NoReturn

\* ServiceNetworkDesign(routes, od_flows, fleet_composition, street_network_graph)
Construct ==
    /\ status = "args"
    /\ status' = IF PostInit(routes, od_flows, fleet_composition, street_network_graph) = "none"
                 THEN "design" ELSE "failed"
    /\ last' = Call("ServiceNetworkDesign",
                    PostInit(routes, od_flows, fleet_composition, street_network_graph),
                    None, None, "")
    /\ ret' = NoReturn
    /\ UNCHANGED <<routes, od_flows, fleet_composition, street_network_graph,
                   fleet_assignments, service_network_graphs, cur>>

\* cur = FleetAssignment(fleet_composition)
Create ==
    /\ cur' = NewFleetAssignment(fleet_composition)
    /\ last' = Call("FleetAssignment", "none", None, None, "")
    /\ ret' = NoReturn
    /\ UNCHANGED <<routes, od_flows, fleet_composition, street_network_graph, status,
                   fleet_assignments, service_network_graphs>>

\* cur = FleetAssignment(composition, assigned_buses=flags, assigned_bus_routes=[...])
CreateFromLists ==
    /\ \E flags \in [DOMAIN fleet_composition.fleet -> BOOLEAN], route \in RouteArgs :
          cur' = ListFleetAssignment(fleet_composition, flags,
                     [i \in DOMAIN flags |-> IF flags[i] THEN route ELSE None])
    /\ last' = Call("FleetAssignment", "none", None, None, "")
    /\ ret' = NoReturn
    /\ UNCHANGED <<routes, od_flows, fleet_composition, street_network_graph, status,
                   fleet_assignments, service_network_graphs>>

\* cur.assign_bus_to_route(bus, route)
AssignBusToRoute ==
    /\ cur # NoAssignment
    /\ \E bus \in BusArgs, route \in RouteArgs :
          /\ cur' = assign_bus_to_route(cur, bus, route).a
          /\ last' = Call("assign_bus_to_route", assign_bus_to_route(cur, bus, route).exc,
                          bus, route, "")
    /\ ret' = NoReturn
    /\ UNCHANGED <<routes, od_flows, fleet_composition, street_network_graph, status,
                   fleet_assignments, service_network_graphs>>

\* design.assign_buses(routine)
AssignBuses ==
    /\ status = "design"
    /\ Len(fleet_assignments) < MaxHistory
    /\ \E routine \in Routines :
          LET res == assign_buses(routes, fleet_composition, street_network_graph,
                                  fleet_assignments, service_network_graphs,
                                  RoutineResult(routine, routes, fleet_composition))
          IN /\ fleet_assignments' = res.assignments
             /\ service_network_graphs' = res.graphs
             /\ last' = Call("assign_buses", res.exc, None, None, routine)
    /\ ret' = NoReturn
    /\ UNCHANGED <<routes, od_flows, fleet_composition, street_network_graph, status, cur>>

\* design.remove_assignment(a), a an assignment of the history or a fresh one
RemoveAssignment ==
    /\ status = "design"
    /\ \E a \in Range(fleet_assignments) \cup {NewFleetAssignment(fleet_composition)} :
          /\ fleet_assignments' = remove_assignment(fleet_assignments, a).assignments
          /\ last' = Call("remove_assignment", remove_assignment(fleet_assignments, a).exc,
                          None, None, "")
          /\ ret' = Ret(a, None)
    /\ UNCHANGED <<routes, od_flows, fleet_composition, street_network_graph, status,
                   service_network_graphs, cur>>

\* design.remove_all_assignments()
RemoveAllAssignments ==
    /\ status = "design"
    /\ fleet_assignments' = remove_all_assignments(fleet_assignments)
    /\ last' = Call("remove_all_assignments", "none", None, None, "")
    /\ ret' = NoReturn
    /\ UNCHANGED <<routes, od_flows, fleet_composition, street_network_graph, status,
                   service_network_graphs, cur>>

\* design.analyze_flow_for_assignment(a, od_flow); ret keeps the local path
AnalyzeFlow ==
    /\ status = "design"
    /\ \E a \in Range(fleet_assignments) \cup {NewFleetAssignment(fleet_composition)},
          i \in DOMAIN od_flows :
          \E o \in analyze_flow_for_assignment(fleet_assignments, service_network_graphs,
                                               a, od_flows[i]) :
              /\ last' = Call("analyze_flow_for_assignment", o.exc, None, None, "")
              /\ ret' = [arg |-> [assignment |-> a, od_flow |-> od_flows[i]],
                         value |-> o.value, path |-> o.path]
    /\ UNCHANGED <<routes, od_flows, fleet_composition, street_network_graph, status,
                   fleet_assignments, service_network_graphs, cur>>

\* design.avg_travel_time_for_assignment(a) and its three siblings
AvgForAssignment ==
    /\ status = "design"
    /\ \E a \in Range(fleet_assignments) \cup {NewFleetAssignment(fleet_composition)},
          metric \in Metrics :
          \E o \in avg_for_assignment(od_flows, fleet_assignments, service_network_graphs,
                                      a, metric) :
              /\ last' = Call("avg_for_assignment", o.exc, None, None, "")
              /\ ret' = Ret([assignment |-> a, metric |-> metric], o.value)
    /\ UNCHANGED <<routes, od_flows, fleet_composition, street_network_graph, status,
                   fleet_assignments, service_network_graphs, cur>>

\* reading one of the aggregate properties of the design
Evaluate ==
    /\ status = "design"
    /\ \E name \in Aggregates :
          \E o \in evaluate_aggregate(name, routes, od_flows, fleet_assignments,
                                      service_network_graphs) :
              /\ last' = Call("aggregate", o.exc, None, None, "")
              /\ ret' = Ret(name, o.value)
              /\ fleet_assignments' = o.assignments
              /\ service_network_graphs' = o.graphs
    /\ UNCHANGED <<routes, od_flows, fleet_composition, street_network_graph, status, cur>>

\* the design: its construction, assign_buses, the removals, the flow
\* analysis and the aggregates
Next ==
    \/ Construct
    \/ AssignBuses
    \/ RemoveAssignment
    \/ RemoveAllAssignments
    \/ AnalyzeFlow
    \/ AvgForAssignment
    \/ Evaluate

Spec == Init /\ [][Next]_vars

\* a FleetAssignment on its own: a composition, no design
InitFA ==
    /\ routes = <<>>
    /\ od_flows = <<>>
    /\ fleet_composition \in Compositions
    /\ street_network_graph = StreetGraph({})
    /\ status = "args"
    /\ fleet_assignments = <<>>
    /\ service_network_graphs = <<>>
    /\ cur = NoAssignment
    /\ last = Call("none", "none", None, None, "")
    /\ ret = NoReturn

NextFA ==
    \/ Create
    \/ CreateFromLists
    \/ AssignBusToRoute

SpecFA == InitFA /\ [][NextFA]_vars

(***************************************************************************)
(* Properties.  The per-bus state a property speaks of is read from the    *)
(* stored flags and routes directly, not through the derived queries.      *)
(***************************************************************************)
\* the buses (fleet positions) whose assigned flag is true
AssignedPositions(a) == {i \in DOMAIN a.assigned_buses : a.assigned_buses[i]}

\* every bus of the composition has its flag true
FullyAssigned(a) == AssignedPositions(a) = DOMAIN a.composition.fleet

\* the buses whose flag is true and whose recorded route is r
PositionsOnRoute(a, r) == {i \in AssignedPositions(a) : a.assigned_bus_routes[i] = r}

\* the bus is one of the buses of the composition
InComposition(a, bus) == \E i \in DOMAIN a.composition.fleet : a.composition.fleet[i] = bus

PositionOf(a, bus) == CHOOSE i \in DOMAIN a.composition.fleet : a.composition.fleet[i] = bus

\* the object the routine of the step's assign_buses call returns
Returned(routine) == RoutineResult(routine, routes, fleet_composition)

\* C1: assign_buses with a routine whose assignment leaves a bus unassigned
\* raises, and both histories are as before the call.
C1_IncompleteRejected ==
    [][(last'.op = "assign_buses" /\ ~FullyAssigned(Returned(last'.routine)))
          => /\ last'.exc # "none"
             /\ fleet_assignments' = fleet_assignments
             /\ service_network_graphs' = service_network_graphs]_vars

\* C2: assign_buses with a routine returning a fully assigned assignment
\* succeeds and appends that assignment and exactly one service graph.
C2_FullAppendsBoth ==
    [][(last'.op = "assign_buses" /\ FullyAssigned(Returned(last'.routine)))
          => /\ last'.exc = "none"
             /\ fleet_assignments' = Append(fleet_assignments, Returned(last'.routine))
             /\ Len(service_network_graphs') = Len(service_network_graphs) + 1
             /\ Len(service_network_graphs') = Len(fleet_assignments')]_vars

\* C3: an assign_buses call either appends the assignment and its service
\* graph, or raises and leaves both histories as they were.
C3_NoPartialSuccess ==
    [][last'.op = "assign_buses"
          => \/ /\ last'.exc = "none"
                /\ Len(fleet_assignments') = Len(fleet_assignments) + 1
                /\ Len(service_network_graphs') = Len(service_network_graphs) + 1
             \/ /\ last'.exc # "none"
                /\ fleet_assignments' = fleet_assignments
                /\ service_network_graphs' = service_network_graphs]_vars

\* the graph the construction of section 4.4 derives from an assignment
DerivedGraph(a) ==
    [edges |-> ServiceEdges(routes, fleet_composition, a, street_network_graph)]

\* C4: after any sequence of assign_buses and removals the two histories have
\* the same length and the graph at index i is the one derived from the
\* assignment at index i.
C4_HistoriesAligned ==
    status = "design"
        => /\ Len(fleet_assignments) = Len(service_network_graphs)
           /\ \A i \in DOMAIN fleet_assignments :
                 service_network_graphs[i] = DerivedGraph(fleet_assignments[i])

\* the bus argument names a bus of the composition: a Bus of the fleet, or
\* the position of one (the "index of the bus in the fleet" of the
\* docstring, as test_fleet_assignment_assign_bus passes it)
PartOfComposition(a, bus) ==
    IF bus.kind = "int" THEN bus.v + 1 \in DOMAIN a.composition.fleet
    ELSE InComposition(a, bus)

\* the fleet position of a bus argument that names a bus of the composition
PositionNamed(a, bus) == IF bus.kind = "int" THEN bus.v + 1 ELSE PositionOf(a, bus)

\* C5: assign_bus_to_route(bus, route) is rejected exactly when the bus is no
\* bus of the composition or its flag is already true; a rejected call
\* changes no flag and no route; a bus whose flag is true keeps flag and
\* route over every later call.
C5_RejectedExactlyWhen ==
    [][last'.op = "assign_bus_to_route"
          => /\ (last'.exc # "none")
                   <=> (\/ ~PartOfComposition(cur, last'.bus)
                        \/ cur.assigned_buses[PositionNamed(cur, last'.bus)])
             /\ (last'.exc # "none")
                   => /\ cur'.assigned_buses = cur.assigned_buses
                      /\ cur'.assigned_bus_routes = cur.assigned_bus_routes
             /\ \A i \in AssignedPositions(cur) :
                   /\ cur'.assigned_buses[i]
                   /\ cur'.assigned_bus_routes[i] = cur.assigned_bus_routes[i]]_vars

\* C6: a successful assign_bus_to_route(bus, route) on an unassigned bus of
\* the composition sets that bus's flag and route, leaves every other bus
\* alone and increases num_buses_assigned by exactly one.
C6_AssignFrame ==
    [][(/\ last'.op = "assign_bus_to_route"
        /\ last'.exc = "none"
        /\ InComposition(cur, last'.bus))
          => /\ cur'.assigned_buses[PositionOf(cur, last'.bus)]
             /\ cur'.assigned_bus_routes[PositionOf(cur, last'.bus)] = last'.route
             /\ \A i \in DOMAIN cur.assigned_buses \ {PositionOf(cur, last'.bus)} :
                   /\ cur'.assigned_buses[i] = cur.assigned_buses[i]
                   /\ cur'.assigned_bus_routes[i] = cur.assigned_bus_routes[i]
             /\ num_buses_assigned(cur).exc = "none"
             /\ num_buses_assigned(cur').exc = "none"
             /\ num_buses_assigned(cur').val = num_buses_assigned(cur).val + 1]_vars

\* C7: on an assignment built by FleetAssignment(composition) and
\* assign_bus_to_route calls, num_buses_assigned is the number of buses whose
\* flag is true and buses_assigned holds exactly when every flag is true.
C7_CountAndAll ==
    cur.rep = "dict"
        => /\ num_buses_assigned(cur).exc = "none"
           /\ num_buses_assigned(cur).val = Cardinality(AssignedPositions(cur))
           /\ buses_assigned(cur) <=> FullyAssigned(cur)

\* the OD pair is joined by a walk of the street network
Connected(G, f) ==
    /\ f.origin \in G.nodes
    /\ f.destination \in G.nodes
    /\ f.destination \in ReachableFrom(G, {f.origin})

\* the first of the six conditions of section 4.3 the arguments violate, 0
\* when they satisfy all six
FirstViolated(rs, ods, comp, G) ==
    IF Len(rs) < 1 \/ Len(ods) < 1 THEN 1
    ELSE IF Len(comp.fleet) < Len(rs) THEN 2
    ELSE IF \E i, j \in DOMAIN rs : i # j /\ rs[i].name = rs[j].name THEN 3
    ELSE IF \E i \in DOMAIN ods : ~Connected(G, ods[i]) THEN 4
    ELSE IF \E i \in DOMAIN rs : \E k \in 1..(Len(rs[i].nodes) - 1) :
                ~has_edge(G, rs[i].nodes[k], rs[i].nodes[k + 1]) THEN 5
    ELSE IF \E e \in G.edges : ~e.data.has_weight THEN 6
    ELSE 0

\* the condition an invalid-design error reports: 0 for a normal return, 7
\* for an exception that is no invalid-design error
ConditionOf(exc) ==
    CASE exc = "none" -> 0
      [] exc = "ValueError: At least one route must be provided" -> 1
      [] exc = "ValueError: At least one OD flow must be provided" -> 1
      [] exc = "ValueError: At least one bus must be provided for each route" -> 2
      [] exc = "ValueError: All routes must have a unique name" -> 3
      [] exc = "ValueError: No path between OD pair" -> 4
      [] exc = "ValueError: No edge between nodes" -> 5
      [] exc = "ValueError: All edges in the graph must have a 'weight' attribute" -> 6
      [] OTHER -> 7

\* C8: the constructor fails with an invalid-design error exactly when one
\* of the six conditions is violated, the error reports the first violated
\* condition, and a design exists only when all six hold.
C8_ValidationOrder ==
    /\ status = "design"
          => FirstViolated(routes, od_flows, fleet_composition, street_network_graph) = 0
    /\ last.op = "ServiceNetworkDesign"
          => /\ ConditionOf(last.exc)
                   = FirstViolated(routes, od_flows, fleet_composition, street_network_graph)
             /\ (status = "failed") <=> (last.exc # "none")

\* the sum of the values of a function with a finite domain
RECURSIVE SumFn(_)
SumFn(f) ==
    IF DOMAIN f = {} THEN 0
    ELSE LET x == CHOOSE y \in DOMAIN f : TRUE
         IN f[x] + SumFn([y \in DOMAIN f \ {x} |-> f[y]])

\* C9: on an assignment built by FleetAssignment(composition) and
\* assign_bus_to_route calls, each per-route query is the sum (the count)
\* over the buses whose flag is true and whose recorded route is the route.
C9_PerRouteQueries ==
    cur.rep = "dict"
        => \A r \in RouteArgs :
              LET cap(i) == cur.composition.fleet[i].capacity
                  price(i) == cur.composition.fleet[i].procurement_price
                  oper(i) == cur.composition.operators[i]
                                + cur.composition.fleet[i].annual_maintenance_cost
                  emis(i) == cur.composition.fleet[i].per_mile_emissions
              IN /\ capacity_for_route(cur, r) = SumFn([i \in PositionsOnRoute(cur, r) |-> cap(i)])
                 /\ capital_cost_for_route(cur, r) = SumFn([i \in PositionsOnRoute(cur, r) |-> price(i)])
                 /\ operational_cost_for_route(cur, r) = SumFn([i \in PositionsOnRoute(cur, r) |-> oper(i)])
                 /\ emissions_for_route(cur, r) = SumFn([i \in PositionsOnRoute(cur, r) |-> emis(i)])
                 /\ assignment_num_buses_assigned_to_route(cur, r)
                        = Cardinality(PositionsOnRoute(cur, r))

\* C10: satisfied_demand[f] is the sum, over every assignment of the history
\* and every design route whose nodes contain both ends of f, of the
\* capacity of the buses the assignment places on that route.
C10_SatisfiedDemand ==
    status = "design"
        => \A f \in Range(od_flows) :
              satisfied_demand(routes, od_flows, fleet_assignments)[f]
                 = SumSeq([ai \in DOMAIN fleet_assignments |->
                      SumSeq([ri \in DOMAIN routes |->
                          IF Covers(routes[ri], f)
                          THEN SumFn([i \in PositionsOnRoute(fleet_assignments[ai], routes[ri])
                                         |-> fleet_assignments[ai].composition.fleet[i].capacity])
                          ELSE 0])])

\* the flow-weighted mean of one metric over one analysis result per OD flow
MeanOf(ods, results, metric) ==
    Rat(RatSum([i \in DOMAIN ods |->
                   Rat(MetricOf(results[i], metric)[1] * ods[i].flow,
                       MetricOf(results[i], metric)[2])])[1],
        RatSum([i \in DOMAIN ods |->
                   Rat(MetricOf(results[i], metric)[1] * ods[i].flow,
                       MetricOf(results[i], metric)[2])])[2]
        * SumSeq([i \in DOMAIN ods |-> ods[i].flow]))

\* the dicts the flow analysis can return on the graph derived from a, one
\* per OD flow
ResultsOn(a) ==
    {c \in [DOMAIN od_flows ->
               UNION {{o.value : o \in AnalyzeGraph(DerivedGraph(a), od_flows[i])} :
                         i \in DOMAIN od_flows}] :
        \A i \in DOMAIN od_flows :
            \E o \in AnalyzeGraph(DerivedGraph(a), od_flows[i]) :
                o.exc = "none" /\ c[i] = o.value}

\* C11: for every assignment a of the history each of the four
\* avg_*_for_assignment(a) returns the sum over the OD flows of (the flow's
\* metric from the analysis on a's graph times the flow) divided by the sum
\* of the flows, and each of the four list properties returns one entry per
\* assignment, in history order.
C11_WeightedMeans ==
    status = "design"
        => \A metric \in Metrics :
              /\ \A a \in Range(fleet_assignments) :
                    \A o \in avg_for_assignment(od_flows, fleet_assignments,
                                                service_network_graphs, a, metric) :
                        /\ o.exc = "none"
                        /\ \E results \in ResultsOn(a) :
                              RatEq(o.value, MeanOf(od_flows, results, metric))
              /\ \A o \in avg_list(od_flows, fleet_assignments, service_network_graphs,
                                   metric) :
                    /\ o.exc = "none"
                    /\ Len(o.value) = Len(fleet_assignments)
                    /\ \A i \in DOMAIN fleet_assignments :
                          \E e \in avg_for_assignment(od_flows, fleet_assignments,
                                                      service_network_graphs,
                                                      fleet_assignments[i], metric) :
                              e.exc = "none" /\ o.value[i] = e.value

RECURSIVE SeqOf(_)
SeqOf(S) == IF S = {} THEN <<>> ELSE LET x == CHOOSE y \in S : TRUE IN <<x>> \o SeqOf(S \ {x})

\* the service graph section 4.4 derives for the assignment a: the street
\* edges not tagged "distance" with their attributes, then for every route
\* and every bus placed on it one bus edge per consecutive node pair
ClaimedGraph(a) ==
    [edges |->
        SeqOf({[u |-> e.u, v |-> e.v, weight |-> <<e.data.weight, 1>>, type |-> e.data.type,
                route_id |-> "", discomfort |-> 0] :
                  e \in {x \in street_network_graph.edges : x.data.type # "distance"}})
        \o Flatten([r \in DOMAIN routes |->
              Flatten([b \in DOMAIN a.composition.fleet |->
                  IF b \in PositionsOnRoute(a, routes[r])
                  THEN BusEdges(street_network_graph, routes[r], a.composition.fleet[b])
                  ELSE <<>>])])]

\* the nodes a directed walk from a node of S reaches in the graph
RECURSIVE DirectedReach(_, _)
DirectedReach(graph, S) ==
    LET T == S \cup {graph.edges[i].v : i \in {j \in DOMAIN graph.edges : graph.edges[j].u \in S}}
    IN IF T = S THEN S ELSE DirectedReach(graph, T)

HasDirectedPath(graph, origin, destination) == destination \in DirectedReach(graph, {origin})

\* the last call analysed an OD flow for an assignment of the history
AnalysedInHistory ==
    last.op = "analyze_flow_for_assignment" /\ ret.arg.assignment \in Range(fleet_assignments)

\* the last analysis ended as claimed: with a record when the service graph
\* of its assignment has a directed path from the origin to the destination,
\* with a no-path error (for an end that is no node of the graph, the
\* node-not-found error) otherwise
AnalysisAsClaimed ==
    AnalysedInHistory
        => IF HasDirectedPath(ClaimedGraph(ret.arg.assignment), ret.arg.od_flow.origin,
                              ret.arg.od_flow.destination)
           THEN last.exc = "none" /\ ret.value # None
           ELSE last.exc \in {"NetworkXNoPath", "NodeNotFound"}

\* C13: analyze_flow_for_assignment fails with a no-path error when the
\* service graph of the assignment has no directed path from the origin of
\* the OD flow to its destination and returns a metric record whenever there
\* is such a path; the call changes neither history.
C13_PathOrError ==
    [][last'.op = "analyze_flow_for_assignment"
          => /\ AnalysisAsClaimed'
             /\ UNCHANGED <<fleet_assignments, service_network_graphs>>]_vars

\* what the last read of an aggregate returned is what reading it in this
\* state returns
SameOnSecondEvaluation ==
    \A o \in evaluate_aggregate(ret.arg, routes, od_flows, fleet_assignments,
                                service_network_graphs) :
        o.exc = last.exc /\ o.value = ret.value

\* C14: reading an aggregate property (total_emissions, total_capital_cost,
\* total_operational_cost, satisfied_demand, the avg_* lists) changes
\* neither history nor the street network, and reading it again with no
\* mutating operation in between ends the same way with the same value.
C14_PureViews ==
    /\ [](last.op = "aggregate" => SameOnSecondEvaluation)
    /\ [][last'.op = "aggregate"
             => UNCHANGED <<fleet_assignments, service_network_graphs,
                            street_network_graph>>]_vars

\* total_emissions was read on a history of two assignments and returned a
\* sum that is not 0
C14_Witness ==
    /\ last.op = "aggregate"
    /\ last.exc = "none"
    /\ ret.arg = "total_emissions"
    /\ ret.value > 0
    /\ Len(fleet_assignments) = 2

\* the keys of the edges of g from u to v that are tagged "bus" and carry
\* the route name, the discomfort level and the travel time w / speed
BusEdgeKeys(g, u, v, name, discomfort, w, speed) ==
    {i \in DOMAIN g.edges :
        /\ g.edges[i].u = u
        /\ g.edges[i].v = v
        /\ g.edges[i].type = "bus"
        /\ g.edges[i].route_id = name
        /\ g.edges[i].discomfort = discomfort
        /\ RatEq(g.edges[i].weight, Rat(w, speed))}

\* g is the service graph the claim describes for the assignment a
GraphAsClaimed(g, a) ==
    LET fleet == a.composition.fleet
        pairs(r) == RoutePairs(routes[r])
        w(r, k) == StreetWeight(street_network_graph, pairs(r)[k][1], pairs(r)[k][2])
    IN /\ \A r \in DOMAIN routes : \A k \in DOMAIN pairs(r) :
             \A b \in PositionsOnRoute(a, routes[r]) :
                 Cardinality(BusEdgeKeys(g, pairs(r)[k][1], pairs(r)[k][2], routes[r].name,
                                         fleet[b].discomfort_level, w(r, k),
                                         fleet[b].avg_speed))
                    = Cardinality({c \in PositionsOnRoute(a, routes[r]) :
                                      /\ fleet[c].discomfort_level = fleet[b].discomfort_level
                                      /\ fleet[c].avg_speed = fleet[b].avg_speed})
       /\ \A i \in DOMAIN g.edges :
             g.edges[i].type = "bus"
                => \E r \in DOMAIN routes : \E k \in DOMAIN pairs(r) :
                      \E b \in PositionsOnRoute(a, routes[r]) :
                          i \in BusEdgeKeys(g, pairs(r)[k][1], pairs(r)[k][2], routes[r].name,
                                            fleet[b].discomfort_level, w(r, k),
                                            fleet[b].avg_speed)
       /\ \A e \in street_network_graph.edges :
             e.data.type # "distance"
                => \E i \in DOMAIN g.edges :
                      /\ g.edges[i].u = e.u
                      /\ g.edges[i].v = e.v
                      /\ g.edges[i].type = e.data.type
                      /\ RatEq(g.edges[i].weight, Rat(e.data.weight, 1))

\* C15: the service graph built for an accepted assignment has, for every
\* route, every bus assigned to it and every consecutive node pair of the
\* route, one directed "bus" edge with the route's name, the bus's discomfort
\* level and the street weight divided by the bus's speed (k buses give k
\* parallel edges), no other bus edge, and every street edge not tagged
\* "distance" with its attributes.
C15_BuiltGraph ==
    status = "design"
        => \A i \in DOMAIN fleet_assignments :
              /\ i \in DOMAIN service_network_graphs
              /\ GraphAsClaimed(service_network_graphs[i], fleet_assignments[i])

Least(S) == CHOOSE m \in S : \A k \in S : m <= k

\* n rounds of relaxing every edge of the graph on the distances d
RECURSIVE Relax(_, _, _)
Relax(graph, d, n) ==
    IF n = 0 THEN d
    ELSE Relax(graph,
               [x \in DOMAIN d |->
                   Least({d[x]} \cup {d[graph.edges[i].u] + TimeOf(graph.edges[i]) :
                                         i \in {j \in DOMAIN graph.edges : graph.edges[j].v = x}})],
               n - 1)

\* the least total edge weight of a walk from origin to destination, each
\* hop taking any of its parallel edges (1000000: not reached)
MinTravelTime(graph, origin, destination) ==
    Relax(graph, [x \in GraphNodes(graph) |-> IF x = origin THEN 0 ELSE 1000000],
          Cardinality(GraphNodes(graph)))[destination]

\* the edges of least weight between the consecutive nodes of the path
LightestEdges(graph, path) ==
    [i \in 1..(Len(path) - 1) |->
        LET es == EdgesBetween(graph, path[i], path[i + 1])
        IN es[CHOOSE k \in DOMAIN es : \A j \in DOMAIN es : TimeOf(es[k]) <= TimeOf(es[j])]]

\* the last call analysed an OD flow for an assignment of the history whose
\* service graph has a path for it
AnalysedWithPath ==
    /\ AnalysedInHistory
    /\ HasDirectedPath(ClaimedGraph(ret.arg.assignment), ret.arg.od_flow.origin,
                       ret.arg.od_flow.destination)

\* C16: for every service graph and OD flow with a path, the analysis
\* returns, its total travel time (average_travel_time times number_of_hops)
\* is the least total edge weight of a path from the origin to the
\* destination, parallel edges of different weights included, and discomfort
\* and route names are those of the edges that make up that minimum.
C16_MinimumTravelTime ==
    AnalysedWithPath
        => /\ last.exc = "none"
           /\ ret.value.average_travel_time[1] * ret.value.number_of_hops
                 = MinTravelTime(ClaimedGraph(ret.arg.assignment), ret.arg.od_flow.origin,
                                 ret.arg.od_flow.destination)
                   * ret.value.average_travel_time[2]
           /\ LET used == SelectSeq(LightestEdges(ClaimedGraph(ret.arg.assignment), ret.path),
                                    LAMBDA e : e.type = "bus")
              IN /\ ret.value.number_of_services
                       = Cardinality({used[i].route_id : i \in DOMAIN used})
                 /\ RatEq(ret.value.average_discomfort,
                          IF used = <<>> THEN Rat(0, 1)
                          ELSE Rat(SumSeq([i \in DOMAIN used |-> used[i].discomfort]),
                                   Len(used)))

\* the route names of the bus-tagged edges along the path, in path order
BusRouteNames(graph, path) ==
    LET bus == SelectSeq(LightestEdges(graph, path), LAMBDA e : e.type = "bus")
    IN [i \in DOMAIN bus |-> bus[i].route_id]

\* C17: for every analysed path, whatever the route names are, transfers is
\* the number of bus-tagged edges of the path whose route name differs from
\* that of the bus-tagged edge before it on the path (edges that are not
\* bus-tagged are skipped, the first bus edge never counts), and
\* number_of_services is the number of distinct route names of the path's
\* bus edges.
C17_TransfersAndServices ==
    AnalysedWithPath
        => /\ last.exc = "none"
           /\ LET names == BusRouteNames(ClaimedGraph(ret.arg.assignment), ret.path)
              IN /\ ret.value.transfers
                       = Cardinality({i \in 2..Len(names) : names[i] # names[i - 1]})
                 /\ ret.value.number_of_services = Cardinality(Range(names))

\* no edge between two consecutive nodes of the path is tagged "bus"
NoBusEdgeOn(graph, path) ==
    \A i \in 1..(Len(path) - 1) :
        \A j \in DOMAIN EdgesBetween(graph, path[i], path[i + 1]) :
            EdgesBetween(graph, path[i], path[i + 1])[j].type # "bus"

\* the paths of least weight from the origin to the destination of the
\* last analysis in the service graph of its assignment
LeastPaths ==
    {o.path : o \in shortest_path(ClaimedGraph(ret.arg.assignment), ret.arg.od_flow.origin,
                                  ret.arg.od_flow.destination)}

\* C18: when the shortest path for the OD flow runs over no bus-tagged edge,
\* only over carried-over street edges, the analysis returns a record with
\* transfers = 0, number_of_services = 0, average_discomfort = 0 and
\* number_of_hops the number of edges of the path; it does not fail.
C18_StreetOnlyPath ==
    (/\ AnalysedWithPath
     /\ \A p \in LeastPaths : NoBusEdgeOn(ClaimedGraph(ret.arg.assignment), p))
        => /\ last.exc = "none"
           /\ ret.value.transfers = 0
           /\ ret.value.number_of_services = 0
           /\ RatEq(ret.value.average_discomfort, Rat(0, 1))
           /\ \E p \in LeastPaths : ret.value.number_of_hops = Len(p) - 1

\* the service graph connects every OD pair of the design
ConnectsEveryODPair(graph) ==
    \A i \in DOMAIN od_flows :
        HasDirectedPath(graph, od_flows[i].origin, od_flows[i].destination)

\* C19: on a design the constructor accepts (a flow may be 0, and so may
\* the total flow) and an assignment of the history whose service graph
\* connects every OD pair, each of the four avg_*_for_assignment returns a
\* value; it does not raise.
C19_AggregatesReturn ==
    (/\ last.op = "avg_for_assignment"
     /\ ret.arg.assignment \in Range(fleet_assignments)
     /\ ConnectsEveryODPair(ClaimedGraph(ret.arg.assignment)))
        => last.exc = "none"

====
